---- MODULE Spec2Model ----
(***************************************************************************)
(* A model of scutquant's panel factor builder, alpha.make_factors.        *)
(*                                                                         *)
(* A panel table is a sequence of rows in table order.  Each row carries   *)
(* its (time, code) index pair and one cell per column.  A cell is an      *)
(* extended rational <<n, d>>: d > 0 is the number n/d in lowest terms,    *)
(* <<0, 0>> is NaN (a missing value), <<1, 0>> and <<-1, 0>> are +inf and  *)
(* -inf, the results pandas gives for a division by zero.                  *)
(***************************************************************************)
EXTENDS Integers, Sequences, FiniteSets, TLC

VARIABLES
    input,      \* the caller's table as it was when make_factors was called
    kwargs,     \* the caller's kwargs: base column key -> column name or None
    windows,    \* the caller's windows argument
    data,       \* kwargs["data"]: the caller's table, mutated in place
    X,          \* the factor frame under construction
    pc,         \* position inside make_factors
    result      \* what the call produced: a frame, or the exception raised

vars == <<input, kwargs, windows, data, X, pc, result>>

----------------------------------------------------------------------------
(* Bounds of the explored inputs.                                          *)

MaxT == 3
MaxVal == 2

----------------------------------------------------------------------------
(* Extended rational arithmetic: float arithmetic without rounding.        *)

NaN == <<0, 0>>
PosInf == <<1, 0>>
NegInf == <<-1, 0>>

IsNaN(x) == x[2] = 0 /\ x[1] = 0
IsInf(x) == x[2] = 0 /\ x[1] # 0
IsNum(x) == x[2] # 0

Abs(n) == IF n < 0 THEN -n ELSE n
Sign(n) == IF n < 0 THEN -1 ELSE IF n > 0 THEN 1 ELSE 0

RECURSIVE GCD(_, _)
GCD(a, b) == IF b = 0 THEN a ELSE GCD(b, a % b)

\* n/d in lowest terms with a positive denominator (d # 0)
Frac(n, d) ==
    LET g == GCD(Abs(n), Abs(d))
        s == IF d < 0 THEN -1 ELSE 1
    IN  <<s * (n \div g), s * (d \div g)>>

Num(n) == <<n, 1>>

Neg(x) == <<-x[1], x[2]>>

Add(x, y) ==
    IF IsNaN(x) \/ IsNaN(y) THEN NaN
    ELSE IF IsInf(x) THEN (IF IsInf(y) /\ y[1] # x[1] THEN NaN ELSE x)
    ELSE IF IsInf(y) THEN y
    ELSE LET g == GCD(x[2], y[2])
         IN  Frac(x[1] * (y[2] \div g) + y[1] * (x[2] \div g), (x[2] \div g) * y[2])

Sub(x, y) == Add(x, Neg(y))

Mul(x, y) ==
    IF IsNaN(x) \/ IsNaN(y) THEN NaN
    ELSE IF IsInf(x) \/ IsInf(y)
         THEN (IF x[1] = 0 \/ y[1] = 0 THEN NaN ELSE <<Sign(x[1]) * Sign(y[1]), 0>>)
    ELSE Frac(x[1] * y[1], x[2] * y[2])

Div(x, y) ==
    IF IsNaN(x) \/ IsNaN(y) THEN NaN
    ELSE IF IsInf(y) THEN (IF IsInf(x) THEN NaN ELSE Num(0))
    ELSE IF y[1] = 0 THEN (IF x[1] = 0 THEN NaN ELSE <<Sign(x[1]), 0>>)
    ELSE IF IsInf(x) THEN <<Sign(x[1]) * Sign(y[1]), 0>>
    ELSE Frac(x[1] * y[2], x[2] * y[1])

\* x < y on non-NaN cells
Less(x, y) ==
    IF IsInf(x) THEN x[1] < 0 /\ y # x
    ELSE IF IsInf(y) THEN y[1] > 0
    ELSE x[1] * y[2] < y[1] * x[2]

----------------------------------------------------------------------------
(* Series: a column of a table, one cell per row, in table order.  idx is  *)
(* the table's index, the sequence of its rows' <<time, code>> pairs.      *)

Rows(idx) == 1..Len(idx)
TimeAt(idx, i) == idx[i][1]
CodeAt(idx, i) == idx[i][2]

\* s1 + s2, s1 - s2, s1 / s2 on two series of one index
AddS(s1, s2) == [i \in 1..Len(s1) |-> Add(s1[i], s2[i])]
SubS(s1, s2) == [i \in 1..Len(s1) |-> Sub(s1[i], s2[i])]
DivS(s1, s2) == [i \in 1..Len(s1) |-> Div(s1[i], s2[i])]
\* s - c, s * c, s / c for a scalar c
SubK(s, c) == [i \in 1..Len(s) |-> Sub(s[i], c)]
MulK(s, c) == [i \in 1..Len(s) |-> Mul(s[i], c)]
DivK(s, c) == [i \in 1..Len(s) |-> Div(s[i], c)]

RECURSIVE SumOver(_, _)
SumOver(s, S) ==
    IF S = {} THEN Num(0)
    ELSE LET j == CHOOSE m \in S : \A k \in S : m <= k
         IN  Add(s[j], SumOver(s, S \ {j}))

\* the non-missing cells among the positions S
Valid(s, S) == {j \in S : ~IsNaN(s[j])}

\* mean(): the mean of the non-missing cells, NaN when there is none
MeanOver(s, S) ==
    IF Valid(s, S) = {} THEN NaN
    ELSE Div(SumOver(s, Valid(s, S)), Num(Cardinality(Valid(s, S))))

\* the rows up to and including row i, without the groupby
TableUpTo(idx, i) == 1..i

\* the rows of i's group under groupby(code), up to and including row i
GroupUpTo(idx, i) == {j \in 1..i : CodeAt(idx, j) = CodeAt(idx, i)}

\* the row groupby(code).shift(n) reads for row i: the n-th row before i
\* within i's group, 0 when the group has fewer than n rows before i
ShiftSrc(idx, n, i) ==
    LET prior == GroupUpTo(idx, i) \ {i}
    IN  IF Cardinality(prior) < n THEN 0
        ELSE CHOOSE j \in prior : Cardinality({m \in prior : m >= j}) = n

\* series.groupby(code).shift(-n): the n-th later row of the group
LeadShift(s, idx, n) ==
    [i \in 1..Len(s) |->
        LET later == {j \in (i + 1)..Len(s) : CodeAt(idx, j) = CodeAt(idx, i)}
        IN  IF Cardinality(later) < n THEN NaN
            ELSE s[CHOOSE j \in later : Cardinality({m \in later : m <= j}) = n]]

\* series.shift(n), without the groupby
GlobalShift(s, idx, n) ==
    [i \in 1..Len(s) |-> IF i - n < 1 THEN NaN ELSE s[i - n]]

\* series.groupby(code).shift(n)
GroupShift(s, idx, n) ==
    [i \in 1..Len(s) |->
        IF ShiftSrc(idx, n, i) = 0 THEN NaN ELSE s[ShiftSrc(idx, n, i)]]

\* the rows of the window series.rolling(w) ends at row i, without the groupby
TableWindowRows(idx, w, i) == {j \in 1..i : j > i - w}

\* the rows of the window rolling(w) ends at row i within i's group
WindowRows(idx, w, i) ==
    {j \in GroupUpTo(idx, i) :
        Cardinality({m \in GroupUpTo(idx, i) : m >= j}) <= w}

\* rolling(w, min_periods=1): a value as soon as one cell is not missing
WindowPartial(s, idx, w, i) == Valid(s, WindowRows(idx, w, i)) # {}

\* a rolling(w) window yields a value only when it holds w non-missing cells
\* (min_periods defaults to the window length)
WindowFull(s, idx, w, i) ==
    Cardinality(Valid(s, WindowRows(idx, w, i))) >= w

\* series.groupby(code).transform(lambda x: x.rolling(w).mean())
RollingMean(s, idx, w) ==
    [i \in 1..Len(s) |->
        IF WindowFull(s, idx, w, i) THEN MeanOver(s, WindowRows(idx, w, i))
        ELSE NaN]

\* the square of series.groupby(code).transform(lambda x: x.rolling(w).std()):
\* the sum of squared deviations from the window mean over w - 1 (0/0 for
\* w = 1).  A standard deviation is held as its square, the square root not
\* being rational.
RollingVar(s, idx, w) ==
    [i \in 1..Len(s) |->
        IF WindowFull(s, idx, w, i)
        THEN LET W == WindowRows(idx, w, i)
                 dev == [j \in 1..Len(s) |->
                            IF j \in W THEN Sub(s[j], MeanOver(s, W)) ELSE NaN]
                 sq == [j \in 1..Len(s) |-> Mul(dev[j], dev[j])]
             IN  Div(SumOver(sq, W), Num(w - 1))
        ELSE NaN]

\* series.groupby(code).transform(lambda x: x.rolling(w).max())
RollingMax(s, idx, w) ==
    [i \in 1..Len(s) |->
        IF WindowFull(s, idx, w, i)
        THEN LET W == WindowRows(idx, w, i)
             IN  s[CHOOSE j \in W : \A k \in W : ~Less(s[j], s[k])]
        ELSE NaN]

\* series.groupby(code).transform(lambda x: x.rolling(w).min())
RollingMin(s, idx, w) ==
    [i \in 1..Len(s) |->
        IF WindowFull(s, idx, w, i)
        THEN LET W == WindowRows(idx, w, i)
             IN  s[CHOOSE j \in W : \A k \in W : ~Less(s[k], s[j])]
        ELSE NaN]

\* the rows of i's cross-section under groupby(datetime)
CrossSection(idx, i) == {j \in Rows(idx) : TimeAt(idx, j) = TimeAt(idx, i)}

\* the average rank over the number of rows of the cross-section, the
\* missing ones counted
RankPctOfAll(s, idx) ==
    [i \in 1..Len(s) |->
        IF IsNaN(s[i]) THEN NaN
        ELSE LET G == Valid(s, CrossSection(idx, i))
                 below == Cardinality({j \in G : Less(s[j], s[i])})
                 same == Cardinality({j \in G : s[j] = s[i]})
             IN  Div(Frac(2 * below + same + 1, 2), Num(Cardinality(CrossSection(idx, i))))]

\* series.groupby(datetime).rank(pct=True): average rank among the
\* non-missing cells of the cross-section, over their count
RankPct(s, idx) ==
    [i \in 1..Len(s) |->
        IF IsNaN(s[i]) THEN NaN
        ELSE LET G == Valid(s, CrossSection(idx, i))
                 below == Cardinality({j \in G : Less(s[j], s[i])})
                 same == Cardinality({j \in G : s[j] = s[i]})
             IN  Div(Frac(2 * below + same + 1, 2), Num(Cardinality(G)))]

\* series.groupby(datetime).mean(), read back at each row's timestamp
CrossMean(s, idx) ==
    [i \in 1..Len(s) |-> MeanOver(s, CrossSection(idx, i))]

\* the largest (dir = 1) or smallest (dir = -1) non-missing cell among S
Extreme(s, S, dir) ==
    IF Valid(s, S) = {} THEN NaN
    ELSE LET V == Valid(s, S)
         IN  s[CHOOSE j \in V : \A k \in V :
                    IF dir = 1 THEN ~Less(s[j], s[k]) ELSE ~Less(s[k], s[j])]

\* series.groupby(datetime).max(), read back at each row's timestamp
CrossMax(s, idx) == [i \in 1..Len(s) |-> Extreme(s, CrossSection(idx, i), 1)]

\* series.groupby(datetime).min(), read back at each row's timestamp
CrossMin(s, idx) == [i \in 1..Len(s) |-> Extreme(s, CrossSection(idx, i), -1)]

\* frame.fillna(method="ffill") on one column, without the groupby
TableFfill(s, idx) ==
    [i \in 1..Len(s) |->
        LET seen == Valid(s, 1..i)
        IN  IF seen = {} THEN NaN
            ELSE s[CHOOSE j \in seen : \A k \in seen : k <= j]]

\* frame.groupby(code).fillna(method="ffill") on one column
GroupFfill(s, idx) ==
    [i \in 1..Len(s) |->
        LET seen == Valid(s, GroupUpTo(idx, i))
        IN  IF seen = {} THEN NaN
            ELSE s[CHOOSE j \in seen : \A k \in seen : k <= j]]

\* series.fillna(v)
FillNa(s, v) == [i \in 1..Len(s) |-> IF IsNaN(s[i]) THEN v ELSE s[i]]

----------------------------------------------------------------------------
(* Frames.  A frame is [index |-> idx, cols |-> f] with f a function from  *)
(* column names to series over idx.  A column name is <<prefix, n>>: the   *)
(* factor "MA5" is <<"MA", 5>>, the column "close" is <<"close", 0>>.      *)

Col(name) == <<name, 0>>

BaseKeys == {"close", "open", "high", "low", "volume", "amount"}

None == "None"
Omitted == "Omitted"

EmptyCols == [k \in {} |-> <<>>]

Range(seq) == {seq[i] : i \in 1..Len(seq)}

\* del frame[k]
Without(cols, k) == [c \in (DOMAIN cols) \ {k} |-> cols[c]]

\* del X["STD2_" + str(w)], for w in windows
DelStd2(cols, Ws) == [c \in (DOMAIN cols) \ ({"STD2_"} \X Range(Ws)) |-> cols[c]]

\* for i in range(1, 5)
RetLags == 4

DefaultWindows == <<5, 10, 20, 30, 60>>

RECURSIVE Pow(_, _)
Pow(x, n) == IF n = 0 THEN Num(1) ELSE Mul(x, Pow(x, n - 1))

\* series.groupby(code).transform(lambda x: x.ewm(span=span,
\* min_periods=minp).mean()): the mean of the group's present cells up to
\* row i, the cell k rows back weighted by ((span - 1) / (span + 1)) ^ k, and
\* NaN until the group has max(minp, 1) present cells
Ewm(s, idx, span, minp) ==
    [i \in 1..Len(s) |->
        LET G == GroupUpTo(idx, i)
            V == Valid(s, G)
            weight == [j \in 1..Len(s) |->
                          IF j \in V
                          THEN Pow(Frac(span - 1, span + 1), Cardinality({m \in G : m > j}))
                          ELSE NaN]
            weighted == [j \in 1..Len(s) |-> Mul(weight[j], s[j])]
        IN  IF Cardinality(V) < (IF minp < 1 THEN 1 ELSE minp) THEN NaN
            ELSE Div(SumOver(weighted, V), SumOver(weight, V))]

\* cal_dif with min_periods=n and min_periods=m
CalDifFullWarmup(prices, idx, n, m) == SubS(Ewm(prices, idx, n, n), Ewm(prices, idx, m, m))

\* cal_dif(prices, n, m), lines 47-51
CalDif(prices, idx, n, m) == SubS(Ewm(prices, idx, n, n - 1), Ewm(prices, idx, m, m - 1))

\* cal_dea(dif, k), lines 54-56
CalDea(dif, idx, k) == Ewm(dif, idx, k, k - 1)

\* the defaults n=12, m=26 of cal_dif and k=9 of cal_dea
DifFast == 12
DifSlow == 26
DeaSpan == 9

\* price.diff() with its negative (dir = 1) or positive (dir = -1) cells
\* set to 0, in absolute value
OneSided(price, idx, dir) ==
    [i \in 1..Len(price) |->
        LET delta == Sub(price[i], GroupShift(price, idx, 1)[i])
        IN  IF IsNaN(delta) THEN NaN
            ELSE IF dir = 1 THEN (IF Less(delta, Num(0)) THEN Num(0) ELSE delta)
            ELSE (IF Less(Num(0), delta) THEN Num(0) ELSE Neg(delta))]

\* cal_rsi with rs = avg_loss / avg_gain
CalRsiSwapped(price, idx, n) ==
    LET rs == DivS(RollingMean(OneSided(price, idx, -1), idx, n),
                   RollingMean(OneSided(price, idx, 1), idx, n))
    IN  [i \in 1..Len(price) |-> Sub(Num(100), Div(Num(100), Add(Num(1), rs[i])))]

\* cal_rsi(price, n), lines 59-68
CalRsi(price, idx, n) ==
    LET rs == DivS(RollingMean(OneSided(price, idx, 1), idx, n),
                   RollingMean(OneSided(price, idx, -1), idx, n))
    IN  [i \in 1..Len(price) |-> Sub(Num(100), Div(Num(100), Add(Num(1), rs[i])))]

\* group_c.shift(n) / data[close] - 1: the ratio the wrong way round
RetInverted(c, idx, n) == SubK(DivS(GroupShift(c, idx, n), c), Num(1))

\* data[close] / group_c.shift(n) - 1
Ret(c, idx, n) == SubK(DivS(c, GroupShift(c, idx, n)), Num(1))

\* the columns lines 162-194 add to X
CloseFrame(idx, c, ret, Ws) ==
    [k \in {Col("DIF"), Col("DEA")}
           \cup ({"RET1_", "RET2_"} \X (1..RetLags))
           \cup ({"CLOSE", "ROC", "BETA", "MA", "MAX", "MIN", "MA2_", "STD2_", "RSI"}
                    \X Range(Ws)) |->
        LET n == k[2]
        IN  CASE k[1] = "DIF" -> CalDif(c, idx, DifFast, DifSlow)
              [] k[1] = "DEA" -> CalDea(CalDif(c, idx, DifFast, DifSlow), idx, DeaSpan)
              [] k[1] = "RSI" -> CalRsi(c, idx, n)
              [] k[1] = "RET1_" -> Ret(c, idx, n)
              [] k[1] = "RET2_" -> RankPct(Ret(c, idx, n), idx)
              [] k[1] = "CLOSE" -> DivS(GroupShift(c, idx, n), c)
              [] k[1] = "ROC" -> DivK(Ret(c, idx, n), Num(n))
              [] k[1] = "BETA" ->
                    DivS(SubS(c, GroupShift(c, idx, n)), MulK(c, Num(n)))
              [] k[1] = "MA" -> DivS(RollingMean(c, idx, n), c)
              [] k[1] = "MAX" -> DivS(RollingMax(c, idx, n), c)
              [] k[1] = "MIN" -> DivS(RollingMin(c, idx, n), c)
              [] k[1] = "MA2_" -> RollingMean(ret, idx, n)
              [] k[1] = "STD2_" -> RollingVar(ret, idx, n)]

\* data[close] / data[open] - 1
Kmid(c, o) == SubK(DivS(c, o), Num(1))

\* the columns lines 199-204 add to X
OpenCloseFrame(idx, c, o) ==
    [k \in {Col("DELTA"), Col("KMID"), Col("PERF1"), Col("PERF2"), Col("PERF3")} |->
        CASE k[1] = "DELTA" -> RankPct(SubS(c, o), idx)
          [] k[1] = "KMID" -> Kmid(c, o)
          [] k[1] = "PERF1" -> DivS(Kmid(c, o), CrossMean(Kmid(c, o), idx))
          [] k[1] = "PERF2" -> DivS(Kmid(c, o), CrossMax(Kmid(c, o), idx))
          [] k[1] = "PERF3" -> DivS(Kmid(c, o), CrossMin(Kmid(c, o), idx))]

\* rolling(9) of lines 219-220 and rolling(3) of line 223
KdjWindow == 9
KdjSmooth == 3

\* (data[close] - l9) / (h9 - l9) * 100
KdjK(idx, c, h, l) ==
    LET l9 == RollingMin(l, idx, KdjWindow)
        h9 == RollingMax(h, idx, KdjWindow)
    IN  MulK(DivS(SubS(c, l9), SubS(h9, l9)), Num(100))

\* the columns lines 217-234 add to X that have no epsilon in them
CandleFrame(idx, c, o, h, l, hasLow) ==
    [k \in {Col("KUP")}
           \cup (IF hasLow
                 THEN {Col("KDJ_K"), Col("KDJ_D"), Col("KLEN"), Col("KLOW"), Col("VWAP")}
                 ELSE {}) |->
        CASE k[1] = "KUP" -> DivS(SubS(h, o), o)
          [] k[1] = "KDJ_K" -> KdjK(idx, c, h, l)
          [] k[1] = "KDJ_D" -> RollingMean(KdjK(idx, c, h, l), idx, KdjSmooth)
          [] k[1] = "KLEN" -> DivS(SubS(h, l), o)
          [] k[1] = "KLOW" -> DivS(SubS(c, l), o)
          [] k[1] = "VWAP" -> DivS(AddS(AddS(h, l), c), MulK(o, Num(3)))]

\* X[name + str(w)] = group.shift(w) / data[col], for w in windows
LagFrame(name, idx, s, Ws) ==
    [k \in {name} \X Range(Ws) |-> DivS(GroupShift(s, idx, k[2]), s)]

\* data[volume] / group_v.shift(1) - 1
ChgVol(idx, v) == SubK(DivS(v, GroupShift(v, idx, 1)), Num(1))

\* the columns lines 254-262 add to X
VolumeFrame(idx, v, chg, Ws) ==
    [k \in ({"VOLUME", "VMA", "VMA2_"} \X Range(Ws)) \cup {Col("VMEAN")} |->
        LET n == k[2]
        IN  CASE k[1] = "VOLUME" -> DivS(GroupShift(v, idx, n), v)
              [] k[1] = "VMA" -> DivS(RollingMean(v, idx, n), v)
              [] k[1] = "VMA2_" -> RollingMean(chg, idx, n)
              [] k[1] = "VMEAN" -> DivS(v, CrossMean(v, idx))]

\* the columns lines 264-267 add to X
Mean2Frame(idx, a, v, Ws) ==
    LET mean == DivS(a, v)
    IN  [k \in {Col("MEAN2")} \cup ({"MEAN2_"} \X Range(Ws)) |->
            CASE k[1] = "MEAN2" -> DivS(mean, CrossMean(mean, idx))
              [] k[1] = "MEAN2_" -> DivS(GroupShift(mean, idx, k[2]), mean)]

\* X.fillna(0).mean() of one column: a missing cell counts as zero
ColMeanZero(s) == Div(SumOver(s, Valid(s, 1..Len(s))), Num(Len(s)))

\* X.mean() of one column
ColMean(s) == MeanOver(s, 1..Len(s))

\* the fill followed by a drop of each entity's first row
FillDropFirst(frame) ==
    LET idx == frame.index
        kept == {i \in 1..Len(idx) : GroupUpTo(idx, i) # {i}}
        At(m) == CHOOSE i \in kept : Cardinality({j \in kept : j <= i}) = m
    IN  [index |-> [m \in 1..Cardinality(kept) |-> idx[At(m)]],
         cols |-> [k \in DOMAIN frame.cols |->
                     [m \in 1..Cardinality(kept) |->
                        FillNa(GroupFfill(frame.cols[k], idx), ColMean(frame.cols[k]))[At(m)]]]]

\* X.groupby(groupby).fillna(method="ffill").fillna(X.mean())
Fill(frame) ==
    [index |-> frame.index,
     cols |-> [k \in DOMAIN frame.cols |->
                 FillNa(GroupFfill(frame.cols[k], frame.index), ColMean(frame.cols[k]))]]

\* X as line 284 finds it when all six columns are present under their
\* default names: what lines 158-281 add to the empty frame of line 148
Factors(d, Ws) ==
    LET idx == d.index
        c == d.cols[Col("close")]
        o == d.cols[Col("open")]
        h == d.cols[Col("high")]
        l == d.cols[Col("low")]
        v == d.cols[Col("volume")]
        a == d.cols[Col("amount")]
    IN  [index |-> idx,
         cols |-> DelStd2(CloseFrame(idx, c, Ret(c, idx, 1), Ws), Ws)
                  @@ OpenCloseFrame(idx, c, o)
                  @@ CandleFrame(idx, c, o, h, l, TRUE)
                  @@ LagFrame("OPEN", idx, o, Ws)
                  @@ LagFrame("HIGH", idx, h, Ws)
                  @@ (Col("MEAN1") :> DivS(AddS(h, l), MulK(c, Num(2))))
                  @@ LagFrame("LOW", idx, l, Ws)
                  @@ VolumeFrame(idx, v, ChgVol(idx, v), Ws)
                  @@ Mean2Frame(idx, a, v, Ws)
                  @@ LagFrame("AMOUNT", idx, a, Ws)]

\* make_factors(kwargs, windows) on such a table
MakeFactors(d, Ws) == Fill(Factors(d, Ws))

----------------------------------------------------------------------------
(* The inputs explored.  Two entities are observed on the timestamps       *)
(* 1..MaxT: "A" on all of them, "B" from a first timestamp on (or never).  *)
(* Each bar is derived from one positive price level v, or is missing as a *)
(* whole, and each entity's levels follow a path that starts in 1..MaxVal. *)

Codes == <<"A", "B">>

Bar(v) ==
    IF IsNaN(v)
    THEN [k \in BaseKeys |-> NaN]
    ELSE LET c == v[1]
             o == (c % 2) + 1
         IN  [k \in BaseKeys |->
                CASE k = "close" -> Num(c)
                  [] k = "open" -> Num(o)
                  [] k = "high" -> Num(IF c > o THEN c ELSE o)
                  [] k = "low" -> Num(IF c > o THEN o ELSE c)
                  [] k = "volume" -> Num(c + 1)
                  [] k = "amount" -> Num(c * (c + 1))]

Shapes == {"flat", "up", "down"}

\* the price levels of an entity observed on the timestamps first..MaxT
Path(v0, shape, gap, first) ==
    [t \in first..MaxT |->
        IF t - first + 1 = gap THEN NaN
        ELSE CASE shape = "flat" -> Num(v0)
               [] shape = "up" -> Num(v0 + (t - first))
               [] shape = "down" -> Num(v0 + (MaxT - t))]

Paths(first, gaps) ==
    {Path(v0, shape, gap, first) : v0 \in 1..MaxVal, shape \in Shapes, gap \in gaps}

\* every <<time, code>> pair, by time then code
TimeMajor == [i \in 1..(2 * MaxT) |-> <<((i + 1) \div 2), Codes[((i - 1) % 2) + 1]>>]
\* every <<time, code>> pair, by code then time
CodeMajor == [i \in 1..(2 * MaxT) |-> <<((i - 1) % MaxT) + 1, Codes[((i - 1) \div MaxT) + 1]>>]

Reverse(seq) == [i \in 1..Len(seq) |-> seq[Len(seq) + 1 - i]]

\* the orders other than the sorted one: each entity's rows together and in
\* time order, and the sorted order backwards
OtherOrders == {CodeMajor, Reverse(TimeMajor)}

\* the table with the rows of order that are observed, valued by the paths
Table(order, firstB, pathA, pathB) ==
    LET Seen(key) == key[2] = "A" \/ key[1] >= firstB
        idx == SelectSeq(order, Seen)
        Level(key) == IF key[2] = "A" THEN pathA[key[1]] ELSE pathB[key[1]]
    IN  [index |-> idx,
         cols |-> [k \in {Col(b) : b \in BaseKeys} |->
                     [i \in 1..Len(idx) |-> Bar(Level(idx[i]))[k[1]]]]]

\* the bars "B" may miss: its second, when it is observed from the start
GapsB(firstB) == IF firstB = 1 THEN {0, 2} ELSE {0}

\* sorted tables in which "A" may miss its first or second bar and "B" its
\* second, and tables in the other orders with no missing bar
Tables ==
    UNION {{Table(TimeMajor, firstB, pathA, pathB) :
                pathA \in Paths(1, 0..2), pathB \in Paths(firstB, GapsB(firstB))}
           \cup {Table(order, firstB, pathA, pathB) :
                    order \in OtherOrders, pathA \in Paths(1, {0}), pathB \in Paths(firstB, {0})} :
           firstB \in 1..(MaxT + 1)}

\* the documented scenario: two entities over five timestamps
ScenarioClose == [A |-> <<10, 11, 12, 11, 10>>, B |-> <<20, 19, 18, 19, 20>>]

Scenario ==
    LET idx == [i \in 1..10 |-> <<((i + 1) \div 2), Codes[((i - 1) % 2) + 1]>>]
    IN  [index |-> idx,
         cols |-> [k \in {Col(b) : b \in BaseKeys} |->
                     [i \in 1..10 |-> Bar(Num(ScenarioClose[idx[i][2]][idx[i][1]]))[k[1]]]]]

AllGiven == [k \in BaseKeys |-> k]

\* a bar with no range: open, high, low and close all at v
FlatBar(v) ==
    [k \in BaseKeys |->
        CASE k \in {"close", "open", "high", "low"} -> Num(v)
          [] k = "volume" -> Num(v + 1)
          [] k = "amount" -> Num(v * (v + 1))]

\* the table d with a copy of its row r appended: a duplicate key
WithDuplicate(d, r) ==
    [index |-> Append(d.index, d.index[r]),
     cols |-> [k \in DOMAIN d.cols |-> Append(d.cols[k], d.cols[k][r])]]

DuplicateTables ==
    {WithDuplicate(Table(TimeMajor, 1, pathA, pathB), r) :
        pathA \in Paths(1, {0}), pathB \in Paths(1, {0}), r \in 1..(2 * MaxT)}

\* the rows beyond the KDJ window an entity may have
MaxExtra == 1

\* one entity observed on n timestamps with flat bars at level v, the bar of
\* timestamp j (if any) having a range
LongTable(n, v, j) ==
    [index |-> [i \in 1..n |-> <<i, "A">>],
     cols |-> [k \in {Col(b) : b \in BaseKeys} |->
                 [i \in 1..n |-> IF i = j THEN Bar(Num(v))[k[1]] ELSE FlatBar(v)[k[1]]]]]

LongTables ==
    {LongTable(n, v, j) : n \in (KdjWindow - 1)..(KdjWindow + MaxExtra), v \in 1..MaxVal,
                          j \in 0..(KdjWindow + MaxExtra)}

\* one table under every kwargs, every table under the kwargs that name
\* all six columns
Inputs ==
    {[data |-> d, kwargs |-> AllGiven, windows |-> <<2>>] : d \in Tables \cup {Scenario}}
    \cup {[data |-> Table(TimeMajor, 1, Path(1, "up", 0, 1), Path(1, "down", 0, 1)),
           kwargs |-> kw, windows |-> w] :
            kw \in [BaseKeys -> {None, Omitted}] \cup {[AllGiven EXCEPT ![b] = None] : b \in BaseKeys},
            w \in {<<>>, <<2>>, <<2, 3>>}}

----------------------------------------------------------------------------
(* make_factors, one action per block of its body.                         *)

NoFrame == [index |-> <<>>, cols |-> EmptyCols]
NoResult == [kind |-> "none", error |-> "", frame |-> NoFrame]
Raise(e) == [kind |-> "raise", error |-> e, frame |-> NoFrame]
Returned(f) == [kind |-> "frame", error |-> "", frame |-> f]

Init ==
    \E inp \in Inputs :
        /\ input = inp.data
        /\ data = inp.data
        /\ kwargs = inp.kwargs
        /\ windows = inp.windows
        /\ X = NoFrame
        /\ pc = "start"
        /\ result = NoResult

\* data[kwargs[key]]
Base(key) == data.cols[Col(kwargs[key])]

Has(key) == kwargs[key] # None

\* lines 117-148: the defaults of kwargs and windows, and the empty X.
\* The caller's windows list is never None here: <<>> stands for None.
Prepare ==
    /\ pc = "start"
    /\ kwargs' = [k \in BaseKeys |-> IF kwargs[k] = Omitted THEN k ELSE kwargs[k]]
    /\ windows' = IF windows = <<>> THEN DefaultWindows ELSE windows
    /\ X' = [index |-> data.index, cols |-> EmptyCols]
    /\ pc' = "prepared"
    /\ UNCHANGED <<input, data, result>>

\* lines 151-156: data[close].groupby(groupby), ..., for all six keys,
\* before any test for None
GroupBase ==
    /\ pc = "prepared"
    /\ IF \E k \in BaseKeys : Col(kwargs[k]) \notin DOMAIN data.cols
       THEN /\ result' = Raise("KeyError")
            /\ pc' = "raised"
       ELSE /\ result' = result
            /\ pc' = "grouped"
    /\ UNCHANGED <<input, kwargs, windows, data, X>>

\* lines 158-196
CloseFactors ==
    /\ pc = "grouped"
    /\ IF Has("close")
       THEN LET ret == Ret(Base("close"), data.index, 1)
            IN  /\ data' = [data EXCEPT !.cols = (Col("ret") :> ret) @@ @]
                /\ X' = [X EXCEPT !.cols = CloseFrame(data.index, Base("close"), ret, windows) @@ @]
       ELSE UNCHANGED <<data, X>>
    /\ pc' = "close"
    /\ UNCHANGED <<input, kwargs, windows, result>>

\* lines 198-239, inside the block of close
OpenFactors ==
    /\ pc = "close"
    /\ IF Has("close") /\ Has("open")
       THEN X' = [X EXCEPT !.cols =
                    (IF Has("high")
                     THEN CandleFrame(data.index, Base("close"), Base("open"), Base("high"),
                                      IF Has("low") THEN Base("low") ELSE <<>>, Has("low"))
                     ELSE EmptyCols)
                    @@ OpenCloseFrame(data.index, Base("close"), Base("open")) @@ @]
       ELSE UNCHANGED X
    /\ pc' = "open"
    /\ UNCHANGED <<input, kwargs, windows, data, result>>

\* lines 240-251
LagFactors ==
    /\ pc = "open"
    /\ X' = [X EXCEPT !.cols =
                (IF Has("open") THEN LagFrame("OPEN", data.index, Base("open"), windows)
                 ELSE EmptyCols)
                @@ (IF Has("high") THEN LagFrame("HIGH", data.index, Base("high"), windows)
                    ELSE EmptyCols)
                @@ (IF Has("high") /\ Has("low") /\ Has("close")
                    THEN (Col("MEAN1") :>
                            DivS(AddS(Base("high"), Base("low")),
                                MulK(Base("close"), Num(2))))
                    ELSE EmptyCols)
                @@ (IF Has("low") THEN LagFrame("LOW", data.index, Base("low"), windows)
                    ELSE EmptyCols)
                @@ @]
    /\ pc' = "lag"
    /\ UNCHANGED <<input, kwargs, windows, data, result>>

\* lines 252-277.  The scratch columns ret_<w> and volume_<w> of lines
\* 271-276 are created and deleted within the block; line 277 deletes
\* STD2_<w> from X when close is present too.
VolumeFactors ==
    /\ pc = "lag"
    /\ IF Has("volume")
       THEN LET chg == ChgVol(data.index, Base("volume"))
            IN  /\ data' = [data EXCEPT !.cols = (Col("chg_vol") :> chg) @@ @]
                /\ X' = [X EXCEPT !.cols =
                            (IF Has("amount")
                             THEN Mean2Frame(data.index, Base("amount"), Base("volume"), windows)
                             ELSE EmptyCols)
                            @@ VolumeFrame(data.index, Base("volume"), chg, windows)
                            @@ (IF Has("close") THEN DelStd2(X.cols, windows) ELSE X.cols)]
       ELSE UNCHANGED <<data, X>>
    /\ pc' = "volume"
    /\ UNCHANGED <<input, kwargs, windows, result>>

\* line 278: del data["ret"]
DelRet ==
    /\ pc = "volume"
    /\ IF Col("ret") \in DOMAIN data.cols
       THEN /\ data' = [data EXCEPT !.cols = Without(@, Col("ret"))]
            /\ result' = result
            /\ pc' = "delret"
       ELSE /\ data' = data
            /\ result' = Raise("KeyError")
            /\ pc' = "raised"
    /\ UNCHANGED <<input, kwargs, windows, X>>

\* lines 279-281
AmountFactors ==
    /\ pc = "delret"
    /\ IF Has("amount")
       THEN X' = [X EXCEPT !.cols =
                    LagFrame("AMOUNT", data.index, Base("amount"), windows) @@ @]
       ELSE UNCHANGED X
    /\ pc' = "amount"
    /\ UNCHANGED <<input, kwargs, windows, data, result>>

\* line 284
Return ==
    /\ pc = "amount"
    /\ result' = Returned(Fill(X))
    /\ pc' = "done"
    /\ UNCHANGED <<input, kwargs, windows, data, X>>

Next ==
    \/ Prepare
    \/ GroupBase
    \/ CloseFactors
    \/ OpenFactors
    \/ LagFactors
    \/ VolumeFactors
    \/ DelRet
    \/ AmountFactors
    \/ Return

Spec == Init /\ [][Next]_vars

\* make_factors on the tables long enough for the 9-period band
InitLong ==
    \E d \in LongTables :
        /\ input = d
        /\ data = d
        /\ kwargs = AllGiven
        /\ windows = <<2>>
        /\ X = NoFrame
        /\ pc = "start"
        /\ result = NoResult

SpecLong == InitLong /\ [][Next]_vars

\* make_factors on the tables with a duplicate key
InitDuplicate ==
    \E d \in DuplicateTables :
        /\ input = d
        /\ data = d
        /\ kwargs = AllGiven
        /\ windows = <<2>>
        /\ X = NoFrame
        /\ pc = "start"
        /\ result = NoResult

SpecDuplicate == InitDuplicate /\ [][Next]_vars

----------------------------------------------------------------------------
(* alpha360(kwargs, shift), one action per block of its body.              *)

\* the lag count alpha360 is called with
MaxShift == 2

\* the tables and kwargs alpha360 is explored on
Inputs360 ==
    {[data |-> Table(order, firstB, Path(1, "up", gapA, 1), Path(2, "down", 0, firstB)),
      kwargs |-> kw] :
        order \in {TimeMajor, CodeMajor}, firstB \in 1..2, gapA \in {0, 2},
        kw \in [BaseKeys -> {None, Omitted}]}

Init360 ==
    \E inp \in Inputs360 :
        /\ input = inp.data
        /\ data = inp.data
        /\ kwargs = inp.kwargs
        /\ windows = <<>>
        /\ X = NoFrame
        /\ pc = "a360"
        /\ result = NoResult

\* lines 289-315: the defaults of kwargs, and X = pd.DataFrame()
Prepare360 ==
    /\ pc = "a360"
    /\ kwargs' = [k \in BaseKeys |-> IF kwargs[k] = Omitted THEN k ELSE kwargs[k]]
    /\ X' = [index |-> data.index, cols |-> EmptyCols]
    /\ pc' = "a360_open"
    /\ UNCHANGED <<input, windows, data, result>>

\* the columns the normalizer of a block reads: data[close], data[volume]
\* or data[close] * data[volume]
NormKeys(key) ==
    CASE key \in {"open", "close", "high", "low"} -> {"close"}
      [] key = "volume" -> {"volume"}
      [] key = "amount" -> {"close", "volume"}

Normalizer(key) ==
    CASE key \in {"open", "close", "high", "low"} -> Base("close")
      [] key = "volume" -> Base("volume")
      [] key = "amount" ->
            [i \in 1..Len(data.index) |-> Mul(Base("close")[i], Base("volume")[i])]

\* if key is not None: group = data[key].groupby(groupby), and for i in
\* range(1, shift + 1): X[key + str(i)] = group.shift(i) / normalizer
Block360(key, at, next) ==
    /\ pc = at
    /\ IF ~Has(key)
       THEN /\ X' = X
            /\ result' = result
            /\ pc' = next
       ELSE IF \E b \in {key} \cup (IF MaxShift >= 1 THEN NormKeys(key) ELSE {}) :
                    Col(kwargs[b]) \notin DOMAIN data.cols
            THEN /\ X' = X
                 /\ result' = Raise("KeyError")
                 /\ pc' = "raised"
            ELSE /\ X' = [X EXCEPT !.cols =
                            [k \in {kwargs[key]} \X (1..MaxShift) |->
                                DivS(GroupShift(Base(key), data.index, k[2]), Normalizer(key))]
                            @@ @]
                 /\ result' = result
                 /\ pc' = next
    /\ UNCHANGED <<input, kwargs, windows, data>>

\* lines 316-319
Open360 == Block360("open", "a360_open", "a360_close")
\* lines 321-324
Close360 == Block360("close", "a360_close", "a360_high")
\* lines 326-329
High360 == Block360("high", "a360_high", "a360_low")
\* lines 331-334
Low360 == Block360("low", "a360_low", "a360_volume")
\* lines 336-339
Volume360 == Block360("volume", "a360_volume", "a360_amount")
\* lines 341-344
Amount360 == Block360("amount", "a360_amount", "a360_return")

\* line 347: return X, with no fill
Return360 ==
    /\ pc = "a360_return"
    /\ result' = Returned(X)
    /\ pc' = "done"
    /\ UNCHANGED <<input, kwargs, windows, data, X>>

Next360 ==
    \/ Prepare360
    \/ Open360
    \/ Close360
    \/ High360
    \/ Low360
    \/ Volume360
    \/ Amount360
    \/ Return360

Spec360 == Init360 /\ [][Next360]_vars

----------------------------------------------------------------------------
(* ic_ana(pred, y), one action per statement.  The plot of lines 683-695   *)
(* draws the two series and changes no value of them.                      *)

\* the square root of a number that is the square of a rational
IntRoot(n) == CHOOSE r \in 0..n : r * r = n
Root(x) == IF IsNum(x) THEN <<IntRoot(x[1]), IntRoot(x[2])>> ELSE x

\* the sum of (a - mean(a)) * (b - mean(b)) over the positions S
SumDev(a, b, S) ==
    LET dev == [j \in 1..Len(a) |->
                    IF j \in S
                    THEN Mul(Sub(a[j], MeanOver(a, S)), Sub(b[j], MeanOver(b, S)))
                    ELSE NaN]
    IN  SumOver(dev, S)

\* a.cov(b) on the positions S: the covariance, not normalised
Cov(a, b, S) ==
    LET V == Valid(a, S) \cap Valid(b, S)
    IN  IF V = {} THEN NaN
        ELSE Div(SumDev(a, b, V), Num(Cardinality(V) - 1))

\* a.corr(b) on the positions S: Pearson's r over the pairs with both
\* cells present, NaN when there is no pair or no variance (0/0)
Corr(a, b, S) ==
    LET V == Valid(a, S) \cap Valid(b, S)
    IN  IF V = {} THEN NaN
        ELSE Div(SumDev(a, b, V), Root(Mul(SumDev(a, a, V), SumDev(b, b, V))))

\* the average ranks of the cells of a among the positions V
RankIn(a, V) ==
    [j \in 1..Len(a) |->
        IF j \in V
        THEN Frac(2 * Cardinality({m \in V : Less(a[m], a[j])})
                    + Cardinality({m \in V : a[m] = a[j]}) + 1, 2)
        ELSE NaN]

\* a.corr(b, method='spearman') on the positions S: Pearson's r of the
\* ranks taken among the pairs with both cells present
Spearman(a, b, S) ==
    LET V == Valid(a, S) \cap Valid(b, S)
    IN  Corr(RankIn(a, V), RankIn(b, V), V)

\* series.std(ddof=0) squared: the variance over the count of present cells
VarPopulation(s) ==
    LET V == Valid(s, 1..Len(s))
    IN  IF V = {} THEN NaN ELSE Div(SumDev(s, s, V), Num(Cardinality(V)))

\* series.std() squared: the sample variance of the present cells, NaN
\* (0/0) when there is one and when there is none
Var(s) ==
    LET V == Valid(s, 1..Len(s))
    IN  IF V = {} THEN NaN ELSE Div(SumDev(s, s, V), Num(Cardinality(V) - 1))

\* series.mean() / series.std(), held as its square with its sign: the
\* standard deviation is a square root
MeanOverStd(s) ==
    LET m == ColMean(s)
    IN  Div(Mul(m, IF IsNaN(m) \/ ~Less(m, Num(0)) THEN m ELSE Neg(m)), Var(s))

\* the sorted timestamps of an index: the keys of groupby(datetime)
RECURSIVE SortedSeq(_)
SortedSeq(S) ==
    IF S = {} THEN <<>>
    ELSE LET m == CHOOSE x \in S : \A z \in S : x <= z
         IN  <<m>> \o SortedSeq(S \ {m})

GroupKeys(idx) == SortedSeq({idx[i][1] : i \in 1..Len(idx)})

\* the rows of timestamp t
RowsAt(idx, t) == {i \in 1..Len(idx) : idx[i][1] = t}

\* the timestamps ic_ana is explored on, and its entities
MaxDays == 2
IcCodes == <<"A", "B", "C">>

\* the labels of one cross-section
LabelRows ==
    {<<Num(1), Num(2), Num(3)>>, <<Num(1), Num(1), Num(2)>>,
     <<Num(2), Num(2), Num(2)>>, <<Num(1), Num(2), NaN>>}

\* the predictions of a cross-section, made from its labels
PredRow(kind, y) ==
    CASE kind = "same" -> y
      [] kind = "negated" -> <<Neg(y[1]), Neg(y[2]), Neg(y[3])>>
      [] kind = "constant" -> <<Num(1), Num(1), Num(1)>>
      [] kind = "swapped" -> <<y[1], y[3], y[2]>>
      [] kind = "partial" -> <<NaN, y[2], y[3]>>

PredKinds == {"same", "negated", "constant", "swapped", "partial"}

\* pred and y on one index, as pd.concat([pred, y], axis=1) holds them
IcTable(kinds, ys) ==
    LET idx == [i \in 1..(3 * MaxDays) |-> <<((i - 1) \div 3) + 1, IcCodes[((i - 1) % 3) + 1]>>]
    IN  [index |-> idx,
         cols |-> (Col("pred") :> [i \in 1..(3 * MaxDays) |->
                                      PredRow(kinds[idx[i][1]], ys[idx[i][1]])[((i - 1) % 3) + 1]])
                  @@ (Col("y") :> [i \in 1..(3 * MaxDays) |-> ys[idx[i][1]][((i - 1) % 3) + 1]])]

IcTables == {IcTable(kinds, ys) : kinds \in [1..MaxDays -> PredKinds], ys \in [1..MaxDays -> LabelRows]}

InitIc ==
    \E d \in IcTables :
        /\ input = d
        /\ data = NoFrame
        /\ kwargs = [groupby |-> None]
        /\ windows = <<>>
        /\ X = NoFrame
        /\ pc = "ic_ana"
        /\ result = NoResult

\* lines 679-680: groupby = pred.index.names[0], and concat_data
Concat ==
    /\ pc = "ic_ana"
    /\ data' = input
    /\ pc' = "concat"
    /\ UNCHANGED <<input, kwargs, windows, X, result>>

\* line 681: ic, one Pearson correlation per timestamp
ApplyCorr ==
    /\ pc = "concat"
    /\ X' = [index |-> GroupKeys(data.index),
             cols |-> (Col("ic") :>
                        [n \in 1..Len(GroupKeys(data.index)) |->
                            Corr(data.cols[Col("pred")], data.cols[Col("y")],
                                 RowsAt(data.index, GroupKeys(data.index)[n]))])]
    /\ pc' = "ic"
    /\ UNCHANGED <<input, kwargs, windows, data, result>>

\* line 682: rank_ic, one Spearman correlation per timestamp
ApplySpearman ==
    /\ pc = "ic"
    /\ X' = [X EXCEPT !.cols =
                (Col("rank_ic") :>
                    [n \in 1..Len(X.index) |->
                        Spearman(data.cols[Col("pred")], data.cols[Col("y")],
                                 RowsAt(data.index, X.index[n]))]) @@ @]
    /\ pc' = "rank_ic"
    /\ UNCHANGED <<input, kwargs, windows, data, result>>

\* the tuple IC, ICIR, Rank_IC, Rank_ICIR
Scalars(ic, rank_ic) ==
    [kind |-> "tuple", error |-> "",
     frame |-> [index |-> <<>>,
                cols |-> (Col("IC") :> <<ColMean(ic)>>)
                         @@ (Col("ICIR") :> <<MeanOverStd(ic)>>)
                         @@ (Col("Rank_IC") :> <<ColMean(rank_ic)>>)
                         @@ (Col("Rank_ICIR") :> <<MeanOverStd(rank_ic)>>)]]

\* lines 696-697
Summarize ==
    /\ pc = "rank_ic"
    /\ result' = Scalars(X.cols[Col("ic")], X.cols[Col("rank_ic")])
    /\ pc' = "done"
    /\ UNCHANGED <<input, kwargs, windows, data, X>>

NextIc ==
    \/ Concat
    \/ ApplyCorr
    \/ ApplySpearman
    \/ Summarize

SpecIc == InitIc /\ [][NextIc]_vars

----------------------------------------------------------------------------
(* cal_dif(prices, n, m) and cal_dea(dif, k) as make_factors calls them,   *)
(* through a per-entity transform, on short series and small spans.        *)

\* the longest series and the largest span the two functions are called on
MaxLen == 4
MaxSpan == 4

\* the rows of the series: one entity, or two entities taking turns
DifIndex(len, turns) ==
    [i \in 1..len |->
        IF turns THEN <<(i + 1) \div 2, Codes[2 - (i % 2)]>> ELSE <<i, Codes[1]>>]

\* a series of len prices that cycles through 1..MaxVal from v on, missing
\* at the rows of gaps
DifSeries(len, v, gaps) ==
    [i \in 1..len |-> IF i \in gaps THEN NaN ELSE Num(1 + ((i + v) % MaxVal))]

\* the series and spans cal_dif and cal_dea are explored on: windows holds
\* <<n, m, k>>
InputsDif ==
    UNION {{[data |-> [index |-> DifIndex(len, turns),
                       cols |-> (Col("prices") :> DifSeries(len, v, gaps))],
             windows |-> <<n, m, k>>] :
                turns \in BOOLEAN, v \in 1..MaxVal, gaps \in SUBSET (1..len),
                n \in 2..(MaxSpan - 1), m \in 3..MaxSpan, k \in {2, MaxSpan - 1}} :
           len \in 1..MaxLen}

InitDif ==
    \E inp \in {x \in InputsDif : x.windows[1] < x.windows[2]} :
        /\ input = inp.data
        /\ data = inp.data
        /\ kwargs = [groupby |-> None]
        /\ windows = inp.windows
        /\ X = [index |-> inp.data.index, cols |-> EmptyCols]
        /\ pc = "cal_dif"
        /\ result = NoResult

\* lines 47-51: group.transform(lambda x: cal_dif(x, n, m))
CallDif ==
    /\ pc = "cal_dif"
    /\ X' = [X EXCEPT !.cols =
                (Col("DIF") :> CalDif(data.cols[Col("prices")], data.index,
                                      windows[1], windows[2])) @@ @]
    /\ pc' = "cal_dea"
    /\ UNCHANGED <<input, kwargs, windows, data, result>>

\* lines 54-56: group.transform(lambda x: cal_dea(x, k)), on the same series
CallDea ==
    /\ pc = "cal_dea"
    /\ X' = [X EXCEPT !.cols =
                (Col("DEA") :> CalDea(data.cols[Col("prices")], data.index,
                                      windows[3])) @@ @]
    /\ pc' = "ema_done"
    /\ UNCHANGED <<input, kwargs, windows, data, result>>

ReturnDif ==
    /\ pc = "ema_done"
    /\ result' = Returned(X)
    /\ pc' = "done"
    /\ UNCHANGED <<input, kwargs, windows, data, X>>

NextDif ==
    \/ CallDif
    \/ CallDea
    \/ ReturnDif

SpecDif == InitDif /\ [][NextDif]_vars

----------------------------------------------------------------------------
(* split_data_by_date(data, kwargs) with split_method "split_by_date".     *)
(* A date is its day number: '%Y-%m-%d' strings compare as their days do,  *)
(* and strptime, + timedelta(days=1), strftime give the next day.  A dict  *)
(* is a function on the keys it holds.                                     *)

\* the last date of the tables split_data_by_date is explored on
MaxDate == 3

\* n dates, both entities observed at each
SplitIndex(n) == [i \in 1..(2 * n) |-> <<(i + 1) \div 2, Codes[((i - 1) % 2) + 1]>>]

\* the dicts with the keys of req and any of the keys of opt, on dates
Dicts(req, opt, dates) == UNION {[req \cup given -> dates] : given \in SUBSET opt}

\* kwargs and kwargs["split_kwargs"]: test_start_date, train_end_date and
\* valid_end_date are always given
InputsSplit ==
    {[data |-> [index |-> SplitIndex(n), cols |-> EmptyCols],
      kwargs |-> [kwargs |-> kw, split_kwargs |-> skw]] :
        n \in 1..MaxDate,
        kw \in Dicts({"test_start_date"}, {"test_end_date"}, 1..(MaxDate + 1)),
        skw \in Dicts({"train_end_date", "valid_end_date"},
                      {"train_start_date", "valid_start_date"}, 1..MaxDate)}

InitSplit ==
    \E inp \in InputsSplit :
        /\ input = inp.data
        /\ data = inp.data
        /\ kwargs = inp.kwargs
        /\ windows = <<>>
        /\ X = NoFrame
        /\ pc = "split_data"
        /\ result = NoResult

\* frame[lo <= frame.index.get_level_values(0) <= hi], rows in their order
Between(frame, lo, hi) ==
    LET Keep(key) == lo <= key[1] /\ key[1] <= hi
    IN  [frame EXCEPT !.index = SelectSeq(frame.index, Keep)]

\* frame[~frame.index.isin(other.index)]
NotIn(frame, other) ==
    LET Keep(key) == key \notin Range(other.index)
    IN  [frame EXCEPT !.index = SelectSeq(frame.index, Keep)]

\* lines 378-383: dtest, then dtrain as the rest of data; X holds dtest and
\* data holds dtrain
CutTest ==
    /\ pc = "split_data"
    /\ LET kw == kwargs.kwargs
           last == IF "test_end_date" \in DOMAIN kw THEN kw["test_end_date"] ELSE MaxDate + 1
           dtest == Between(data, kw["test_start_date"], last)
       IN  /\ X' = dtest
           /\ data' = NotIn(data, dtest)
    /\ pc' = "train_start"
    /\ UNCHANGED <<input, kwargs, windows, result>>

\* lines 387-390: train_start_date, by default the date of the first row of
\* dtrain; windows holds the locals train_start_date, valid_start_date
TrainStart ==
    /\ pc = "train_start"
    /\ LET skw == kwargs.split_kwargs
       IN  IF "train_start_date" \notin DOMAIN skw
           THEN IF Len(data.index) = 0
                THEN /\ result' = Raise("IndexError")
                     /\ pc' = "done"
                     /\ UNCHANGED windows
                ELSE /\ windows' = <<data.index[1][1]>>
                     /\ pc' = "valid_start"
                     /\ UNCHANGED result
           ELSE /\ windows' = <<skw["train_start_date"]>>
                /\ pc' = "valid_start"
                /\ UNCHANGED result
    /\ UNCHANGED <<input, kwargs, data, X>>

\* lines 391-396: valid_start_date; the test of line 391 is on the key
\* "train_start_date"
ValidStart ==
    /\ pc = "valid_start"
    /\ LET skw == kwargs.split_kwargs
       IN  IF "train_start_date" \notin DOMAIN skw
           THEN /\ windows' = Append(windows, skw["train_end_date"] + 1)
                /\ pc' = "split_by_date"
                /\ UNCHANGED result
           ELSE IF "valid_start_date" \notin DOMAIN skw
                THEN /\ result' = Raise("KeyError")
                     /\ pc' = "done"
                     /\ UNCHANGED windows
                ELSE /\ windows' = Append(windows, skw["valid_start_date"])
                     /\ pc' = "split_by_date"
                     /\ UNCHANGED result
    /\ UNCHANGED <<input, kwargs, data, X>>

\* return dtrain, dvalid, dtest
Triple(dtrain, dvalid, dtest) ==
    [kind |-> "tuple", error |-> "",
     frame |-> [index |-> <<>>,
                cols |-> (Col("train") :> dtrain.index)
                         @@ (Col("valid") :> dvalid.index)
                         @@ (Col("test") :> dtest.index)]]

\* lines 397-398 with split_by_date, lines 317-321, and line 403
SplitByDate ==
    /\ pc = "split_by_date"
    /\ LET skw == kwargs.split_kwargs
           X_train == Between(data, windows[1], skw["train_end_date"])
           X_valid == Between(data, windows[2], skw["valid_end_date"])
       IN  /\ data' = X_train
           /\ result' = Triple(X_train, X_valid, X)
    /\ pc' = "done"
    /\ UNCHANGED <<input, kwargs, windows, X>>

NextSplit ==
    \/ CutTest
    \/ TrainStart
    \/ ValidStart
    \/ SplitByDate

SpecSplit == InitSplit /\ [][NextSplit]_vars

----------------------------------------------------------------------------
(* Vocabulary of the properties.  An entity's observations are its rows,   *)
(* in the order of the table.                                              *)

Idx == input.index
AllRows == 1..Len(Idx)
In(key) == input.cols[Col(key)]
Out == result.frame.cols
HasFrame == result.kind = "frame"
Ended == pc \in {"done", "raised"}
AfterClose == pc \in {"close", "open", "lag", "volume", "delret", "amount", "done"}
AfterOpen == pc \in {"open", "lag", "volume", "delret", "amount", "done"}
AfterVolume == pc \in {"volume", "delret", "amount", "done"}

\* the earlier observations of row i's entity
Before(i) == {j \in 1..(i - 1) : Idx[j][2] = Idx[i][2]}
\* the n-th observation before row i: a set of at most one row
NthBefore(i, n) == {j \in Before(i) : Cardinality({m \in Before(i) : m > j}) = n - 1}

\* the base columns a factor needs, by the prefix of its name
Needs(prefix) ==
    CASE prefix \in {"DIF", "DEA", "RET1_", "RET2_", "CLOSE", "ROC", "BETA", "MA", "MAX", "MIN",
                     "MA2_", "STD2_", "RSI"} ->
            {"close"}
      [] prefix \in {"DELTA", "KMID", "PERF1", "PERF2", "PERF3"} -> {"close", "open"}
      [] prefix = "KUP" -> {"close", "open", "high"}
      [] prefix \in {"KDJ_K", "KDJ_D", "KLEN", "KLOW", "VWAP"} ->
            {"close", "open", "high", "low"}
      [] prefix = "MEAN1" -> {"close", "high", "low"}
      [] prefix = "OPEN" -> {"open"}
      [] prefix = "HIGH" -> {"high"}
      [] prefix = "LOW" -> {"low"}
      [] prefix \in {"VOLUME", "VMA", "VMA2_", "VMEAN"} -> {"volume"}
      [] prefix \in {"MEAN2", "MEAN2_"} -> {"volume", "amount"}
      [] prefix = "AMOUNT" -> {"amount"}

Prefixes ==
    {"DIF", "DEA", "RET1_", "RET2_", "CLOSE", "ROC", "BETA", "MA", "MAX", "MIN", "MA2_", "STD2_",
     "RSI", "DELTA", "KMID",
     "PERF1", "PERF2", "PERF3", "KUP", "KDJ_K", "KDJ_D", "KLEN", "KLOW", "VWAP", "MEAN1", "OPEN", "HIGH", "LOW",
     "VOLUME", "VMA", "VMA2_", "VMEAN", "MEAN2", "MEAN2_", "AMOUNT"}

----------------------------------------------------------------------------
\* C1: every frame make_factors returns has the index pairs of its input,
\* no row gained and none dropped, and each column has one cell per row.
C1_IndexPreserved ==
    HasFrame =>
        /\ Len(result.frame.index) = Len(Idx)
        /\ Range(result.frame.index) = Range(Idx)
        /\ \A k \in DOMAIN Out : Len(Out[k]) = Len(Idx)

\* a frame was returned for a panel of two entities with a late entrant
C1_Witness ==
    /\ HasFrame
    /\ Len(Idx) > MaxT
    /\ Len(Idx) < 2 * MaxT
    /\ DOMAIN Out # {}

\* C2: with a base column mapped to None the call does not raise, and it
\* returns exactly the factors whose base columns are all present.
C2_AbsentColumnsSkipped ==
    (\E b \in BaseKeys : kwargs[b] = None) =>
        /\ pc # "raised"
        /\ pc = "done" =>
              /\ HasFrame
              /\ {k[1] : k \in DOMAIN Out} =
                    {p \in Prefixes : \A b \in Needs(p) : kwargs[b] # None}

\* C3: a per-entity shift reads the entity's own n-th earlier observation or
\* nothing: CLOSE<w> and RET1_<n> are missing at the entity's first w (n)
\* observations and are otherwise made of that earlier close of the same
\* entity, and no lag ever reads a row of another entity.
C3_ShiftStaysInEntity ==
    AfterClose =>
        \A i \in AllRows :
            /\ \A w \in Range(windows) :
                  IF NthBefore(i, w) = {}
                  THEN IsNaN(X.cols[<<"CLOSE", w>>][i])
                  ELSE \A j \in NthBefore(i, w) :
                          X.cols[<<"CLOSE", w>>][i] = Div(In("close")[j], In("close")[i])
            /\ \A n \in 1..RetLags :
                  IF NthBefore(i, n) = {}
                  THEN IsNaN(X.cols[<<"RET1_", n>>][i])
                  ELSE \A j \in NthBefore(i, n) :
                          X.cols[<<"RET1_", n>>][i] =
                              Sub(Div(In("close")[i], In("close")[j]), Num(1))
            /\ \A n \in 1..(Len(Idx) + 1) :
                  ShiftSrc(Idx, n, i) # 0 => Idx[ShiftSrc(Idx, n, i)][2] = Idx[i][2]

\* a lag was read at a row whose preceding row belongs to the other entity
C3_Witness ==
    /\ AfterClose
    /\ \E i \in AllRows \ {1} :
          /\ Idx[i - 1][2] # Idx[i][2]
          /\ ~IsNaN(X.cols[<<"RET1_", 1>>][i])
          /\ In("close")[i - 1] # In("close")[CHOOSE j \in NthBefore(i, 1) : TRUE]

\* each entity's rows stand in increasing timestamp order in the input
TimeOrdered ==
    \A i, j \in AllRows : (i < j /\ Idx[i][2] = Idx[j][2]) => Idx[i][1] < Idx[j][1]

\* the cell was missing before the fill and its entity has no earlier value
\* of the column: line 284 fills it with the mean of the column
MeanFilled(k, i) == IsNaN(X.cols[k][i]) /\ \A j \in Before(i) : IsNaN(X.cols[k][j])

\* the table d with every bar at a timestamp later than t changed: a price
\* level is raised by one, a missing bar gets level 1
Later(d, t) ==
    [index |-> d.index,
     cols |-> [k \in DOMAIN d.cols |->
                 [i \in 1..Len(d.index) |->
                    IF d.index[i][1] <= t THEN d.cols[k][i]
                    ELSE LET c == d.cols[Col("close")][i]
                         IN  Bar(IF IsNaN(c) THEN Num(1) ELSE Add(c, Num(1)))[k[1]]]]]

Timestamps == {Idx[i][1] : i \in AllRows}

\* C4 as claimed, on tables sorted by time: the returned value at (t, E) is
\* unchanged by a change of the input at timestamps later than t.
C4_NoLookahead ==
    (pc = "done" /\ TimeOrdered) =>
        \A t \in Timestamps :
            LET alt == MakeFactors(Later(input, t), windows)
            IN  \A i \in AllRows : Idx[i][1] <= t =>
                    \A k \in DOMAIN Out : Out[k][i] = alt.cols[k][i]

\* the frame d cut after timestamp t
UpTo(d, t) ==
    LET Early(pair) == pair[1][1] <= t
        Cut(col) == SelectSeq([i \in 1..Len(d.index) |-> <<d.index[i], col[i]>>], Early)
    IN  [index |-> [m \in 1..Len(Cut(d.index)) |-> Cut(d.index)[m][1]],
         cols |-> [k \in DOMAIN d.cols |->
                     [m \in 1..Len(Cut(d.index)) |-> Cut(d.cols[k])[m][2]]]]

\* the number of rows up to row i with a timestamp at most t
RankUpTo(t, i) == Cardinality({j \in 1..i : Idx[j][1] <= t})

\* C4 as amended: on a table sorted by time every factor value before the
\* final fill at (t, E) depends only on the observations with a timestamp at
\* most t (it is what the table cut after t gives), and so does the returned
\* value unless the cell is filled with the mean of its column.
C4_NoLookaheadBeforeFill ==
    (pc = "done" /\ TimeOrdered) =>
        \A t \in Timestamps :
            LET cutX == UpTo(X, t)
                cutOut == Fill(cutX).cols
            IN  /\ cutX = Factors(UpTo(input, t), windows)
                /\ \A i \in AllRows : Idx[i][1] <= t =>
                      \A k \in DOMAIN Out :
                          MeanFilled(k, i) \/ Out[k][i] = cutOut[k][RankUpTo(t, i)]

\* a sorted table was processed whose later bars change a mean-filled cell
\* of an earlier row and leave a forward-filled cell as it was
C4_Witness ==
    /\ pc = "done"
    /\ TimeOrdered
    /\ \E t \in Timestamps :
          LET altOut == MakeFactors(Later(input, t), windows)
          IN  /\ \E i \in AllRows, k \in DOMAIN Out :
                    Idx[i][1] <= t /\ MeanFilled(k, i) /\ Out[k][i] # altOut.cols[k][i]
              /\ \E i \in AllRows, k \in DOMAIN Out :
                    /\ Idx[i][1] <= t
                    /\ IsNaN(X.cols[k][i])
                    /\ ~MeanFilled(k, i)
                    /\ Out[k][i] = altOut.cols[k][i]

\* the earlier observations of row i's entity by timestamp
Earlier(i) == {j \in AllRows : Idx[j][2] = Idx[i][2] /\ Idx[j][1] < Idx[i][1]}
\* the observation n timestamps before row i: a set of at most one row
NthEarlier(i, n) ==
    {j \in Earlier(i) : Cardinality({m \in Earlier(i) : Idx[m][1] > Idx[j][1]}) = n - 1}
\* row i and the observations of its entity at the w - 1 timestamps before
TimeWindow(i, w) ==
    {i} \cup {j \in Earlier(i) : Cardinality({m \in Earlier(i) : Idx[m][1] > Idx[j][1]}) < w - 1}

\* the mean of a full window W of w observations, missing otherwise
WindowMean(col, W, w) ==
    IF Cardinality(W) < w \/ \E j \in W : IsNaN(col[j]) THEN NaN
    ELSE Div(SumOver(col, W), Num(w))

CodeRank(e) == CHOOSE r \in 1..Len(Codes) : Codes[r] = e
KeyBefore(k1, k2) == k1[1] < k2[1] \/ (k1[1] = k2[1] /\ CodeRank(k1[2]) < CodeRank(k2[2]))

\* the rows S of the input, sorted by time then code
RECURSIVE SortedRows(_)
SortedRows(S) ==
    IF S = {} THEN <<>>
    ELSE LET first == CHOOSE i \in S : \A j \in S \ {i} : KeyBefore(Idx[i], Idx[j])
         IN  <<first>> \o SortedRows(S \ {first})

\* the series col with its rows in the order perm
Permute(col, perm) == [m \in 1..Len(perm) |-> col[perm[m]]]

\* the input with its rows sorted by time then code
SortedInput ==
    LET perm == SortedRows(AllRows)
    IN  [index |-> Permute(Idx, perm),
         cols |-> [k \in DOMAIN input.cols |-> Permute(input.cols[k], perm)]]

\* the factors made of shifts and rolling windows within an entity
ShiftRollPrefixes ==
    {"RET1_", "CLOSE", "ROC", "BETA", "MA", "MAX", "MIN", "MA2_", "OPEN", "HIGH", "LOW",
     "VOLUME", "VMA", "VMA2_", "MEAN2_", "AMOUNT"}

\* CLOSE<w> and MA<w> read the entity's observations in timestamp order
InTimeOrder ==
    \A i \in AllRows : \A w \in Range(windows) :
        /\ IF NthEarlier(i, w) = {}
           THEN IsNaN(X.cols[<<"CLOSE", w>>][i])
           ELSE \A j \in NthEarlier(i, w) :
                   X.cols[<<"CLOSE", w>>][i] = Div(In("close")[j], In("close")[i])
        /\ X.cols[<<"MA", w>>][i] =
              Div(WindowMean(In("close"), TimeWindow(i, w), w), In("close")[i])

\* C5 as claimed: whatever the order of the input rows, shifts and rolling
\* windows read an entity's observations in timestamp order, and the
\* returned values are those of the sorted table, row for row.
C5_TimeOrderForAnyRowOrder ==
    pc = "done" =>
        /\ InTimeOrder
        /\ LET sorted == MakeFactors(SortedInput, windows)
           IN  \A k \in DOMAIN Out :
                   Permute(Out[k], SortedRows(AllRows)) = sorted.cols[k]

\* C5 as amended: when each entity's rows stand in increasing timestamp
\* order in the input, shifts and rolling windows read the entity's
\* observations in timestamp order and the shift and rolling-window factors
\* are, before the fill, those of the sorted table, row for row; in any
\* table shift(n) reads the n-th preceding row of the entity in the table.
C5_TimeOrderOfSortedEntities ==
    pc = "done" =>
        /\ TimeOrdered =>
              /\ InTimeOrder
              /\ LET sorted == Factors(SortedInput, windows)
                 IN  \A k \in DOMAIN X.cols : k[1] \in ShiftRollPrefixes =>
                         Permute(X.cols[k], SortedRows(AllRows)) = sorted.cols[k]
        /\ \A i \in AllRows : \A n \in 1..Len(Idx) :
              IF NthBefore(i, n) = {} THEN ShiftSrc(Idx, n, i) = 0
              ELSE ShiftSrc(Idx, n, i) \in NthBefore(i, n)

\* a table was processed whose rows are not sorted by time, each entity's
\* rows being in time order, and a full window ended in the second entity
C5_Witness ==
    /\ pc = "done"
    /\ TimeOrdered
    /\ \E i \in AllRows \ {1} : Idx[i][1] < Idx[i - 1][1]
    /\ \E i \in AllRows, w \in Range(windows) :
          Idx[i][2] = "B" /\ ~IsNaN(X.cols[<<"MA", w>>][i])

\* the observation before row i in the table: a row, for Before(i) # {}
Prev(i) == CHOOSE j \in Before(i) : \A m \in Before(i) : m <= j

\* the mean of the cells of col that are not missing
MeanOfPresent(col) ==
    LET V == {j \in 1..Len(col) : ~IsNaN(col[j])}
    IN  IF V = {} THEN NaN ELSE Div(SumOver(col, V), Num(Cardinality(V)))

\* RET1_1 of the documented scenario, rows by time then entity
ScenarioRet ==
    <<NaN, NaN, Frac(1, 10), Frac(-1, 20), Frac(1, 11), Frac(-1, 19),
      Frac(-1, 12), Frac(1, 18), Frac(-1, 11), Frac(1, 19)>>

\* C6: RET1_1 is close[t] / close[t-1] - 1 on the entity's previous
\* observation and missing at the entity's first one before the fill; the
\* returned matrix keeps the values and holds the mean of the column at each
\* entity's first observation; the documented scenario gives 1/10, 1/11,
\* -1/12, -1/11 and -1/20, -1/19, 1/18, 1/19.
C6_Ret1 ==
    /\ AfterClose =>
          /\ \A i \in AllRows :
                X.cols[<<"RET1_", 1>>][i] =
                    IF Before(i) = {} THEN NaN
                    ELSE Sub(Div(In("close")[i], In("close")[Prev(i)]), Num(1))
          /\ input = Scenario => X.cols[<<"RET1_", 1>>] = ScenarioRet
    /\ pc = "done" =>
          /\ \A i \in AllRows :
                /\ Before(i) = {} =>
                      Out[<<"RET1_", 1>>][i] = MeanOfPresent(X.cols[<<"RET1_", 1>>])
                /\ ~IsNaN(X.cols[<<"RET1_", 1>>][i]) =>
                      Out[<<"RET1_", 1>>][i] = X.cols[<<"RET1_", 1>>][i]
          /\ input = Scenario =>
                Out[<<"RET1_", 1>>] = [ScenarioRet EXCEPT ![1] = Frac(1, 360), ![2] = Frac(1, 360)]

\* the documented scenario was processed to the end
C6_Witness == pc = "done" /\ input = Scenario /\ ~IsNaN(Out[<<"RET1_", 1>>][1])

\* the rows of row i's timestamp, and those whose cell of v is present
SameTime(i) == {j \in AllRows : Idx[j][1] = Idx[i][1]}
Present(v, i) == {j \in SameTime(i) : ~IsNaN(v[j])}

\* the ascending rank of v[i] in its cross-section, ties averaged
AvgRank(v, i) ==
    Add(Num(Cardinality({j \in Present(v, i) : Less(v[j], v[i])})),
        Frac(Cardinality({j \in Present(v, i) : v[j] = v[i]}) + 1, 2))

\* the ranked columns of X with the series each one ranks
Ranked ==
    {<<X.cols[<<"RET2_", n>>], X.cols[<<"RET1_", n>>]>> : n \in 1..RetLags}
    \cup (IF AfterOpen THEN {<<X.cols[Col("DELTA")], SubS(In("close"), In("open"))>>} ELSE {})

\* C7 as claimed: the rank of every present value is its ascending average
\* rank over the count of entities at the timestamp, and lies in (0, 1].
C7_RankOverEntityCount ==
    AfterClose =>
        \A p \in Ranked : \A i \in AllRows :
            ~IsNaN(p[2][i]) =>
                /\ p[1][i] = Div(AvgRank(p[2], i), Num(Cardinality(SameTime(i))))
                /\ Less(Num(0), p[1][i]) /\ ~Less(Num(1), p[1][i])

\* C7 as amended: an entity whose value is missing gets a missing rank; the
\* rank of a present value is its ascending average rank over the count of
\* entities whose value is present at the timestamp, lies in (0, 1] and is
\* the same for tied values; of two present values the larger gets 1 and
\* the other 1/2; DELTA does not depend on the order of the input rows.
C7_RankOverPresentCount ==
    AfterClose =>
        /\ \A p \in Ranked : \A i \in AllRows :
              IF IsNaN(p[2][i]) THEN IsNaN(p[1][i])
              ELSE /\ p[1][i] = Div(AvgRank(p[2], i), Num(Cardinality(Present(p[2], i))))
                   /\ Less(Num(0), p[1][i]) /\ ~Less(Num(1), p[1][i])
                   /\ \A j \in Present(p[2], i) :
                         /\ p[2][j] = p[2][i] => p[1][j] = p[1][i]
                         /\ (Present(p[2], i) = {i, j} /\ Less(p[2][j], p[2][i])) =>
                               (p[1][i] = Num(1) /\ p[1][j] = Frac(1, 2))
        /\ AfterOpen =>
              Permute(X.cols[Col("DELTA")], SortedRows(AllRows)) =
                  RankPct(SubS(SortedInput.cols[Col("close")], SortedInput.cols[Col("open")]),
                          SortedInput.index)

\* one table showed a rank taken among fewer values than entities, a tie,
\* and two different values ranked 1 and 1/2, its rows not sorted
C7_Witness ==
    /\ AfterOpen
    /\ \E i \in AllRows \ {1} : Idx[i][1] < Idx[i - 1][1]
    /\ \E i \in AllRows :
          /\ ~IsNaN(X.cols[<<"RET1_", 1>>][i])
          /\ Present(X.cols[<<"RET1_", 1>>], i) # SameTime(i)
    /\ \E i \in AllRows, j \in AllRows :
          /\ i # j /\ j \in SameTime(i)
          /\ X.cols[<<"RET2_", 1>>][i] = Frac(3, 4)
          /\ X.cols[<<"RET2_", 1>>][j] = Frac(3, 4)
    /\ \E i \in AllRows : X.cols[Col("DELTA")][i] = Frac(1, 2)

\* row i with the w - 1 observations of its entity before it in the table
Trailing(i, w) ==
    {i} \cup {j \in Before(i) : Cardinality({m \in Before(i) : m > j}) < w - 1}

\* whether the trailing window of row i holds w present cells of s
Complete(s, i, w) ==
    Cardinality(Trailing(i, w)) = w /\ \A j \in Trailing(i, w) : ~IsNaN(s[j])

TrailingMean(s, i, w) ==
    IF Complete(s, i, w) THEN Div(SumOver(s, Trailing(i, w)), Num(w)) ELSE NaN

TrailingMax(s, i, w) ==
    IF Complete(s, i, w)
    THEN s[CHOOSE j \in Trailing(i, w) : \A m \in Trailing(i, w) : ~Less(s[j], s[m])]
    ELSE NaN

TrailingMin(s, i, w) ==
    IF Complete(s, i, w)
    THEN s[CHOOSE j \in Trailing(i, w) : \A m \in Trailing(i, w) : ~Less(s[m], s[j])]
    ELSE NaN

\* the rolling columns of X before the fill
RollingPrefixes == {"MA", "MAX", "MIN", "MA2_", "VMA", "VMA2_"}

PriorPresent(col, i) == {j \in Before(i) : ~IsNaN(col[j])}

\* what the fill leaves in the cell of row i of column k
Filled(k, i) ==
    IF ~IsNaN(X.cols[k][i]) THEN X.cols[k][i]
    ELSE IF PriorPresent(X.cols[k], i) # {}
         THEN X.cols[k][CHOOSE j \in PriorPresent(X.cols[k], i) :
                            \A m \in PriorPresent(X.cols[k], i) : m <= j]
         ELSE MeanOfPresent(X.cols[k])

\* C9 as claimed: the returned cell is the value present before the fill,
\* else the entity's most recent prior value of the column, else the mean of
\* the column; a cell is still missing only if the whole column was.
C9_FillLeavesNoGap ==
    pc = "done" =>
        \A k \in DOMAIN X.cols : \A i \in AllRows :
            /\ Out[k][i] = Filled(k, i)
            /\ IsNaN(Out[k][i]) => \A j \in AllRows : IsNaN(X.cols[k][j])

\* C9 as amended: the same fill; a cell is still missing only if its entity
\* had no prior value and the mean of the column is undefined, the column
\* being all missing or holding both +inf and -inf.
C9_FillUpToUndefinedMean ==
    pc = "done" =>
        \A k \in DOMAIN X.cols : \A i \in AllRows :
            /\ Out[k][i] = Filled(k, i)
            /\ IsNaN(Out[k][i]) =>
                  /\ PriorPresent(X.cols[k], i) = {}
                  /\ \/ \A j \in AllRows : IsNaN(X.cols[k][j])
                     \/ /\ \E j \in AllRows : X.cols[k][j] = PosInf
                        /\ \E j \in AllRows : X.cols[k][j] = NegInf

\* one returned matrix holds a cell filled forward from its entity across
\* another entity's row, a cell filled with a mean, and a cell left missing
\* in a column that has values
C9_Witness ==
    /\ pc = "done"
    /\ \E k \in DOMAIN X.cols : \E i \in AllRows :
          /\ IsNaN(X.cols[k][i]) /\ PriorPresent(X.cols[k], i) # {}
          /\ ~IsNaN(X.cols[k][i - 1]) /\ Out[k][i] # X.cols[k][i - 1]
    /\ \E k \in DOMAIN X.cols : \E i \in AllRows :
          /\ IsNaN(X.cols[k][i]) /\ PriorPresent(X.cols[k], i) = {}
          /\ IsNum(Out[k][i])
    /\ \E k \in DOMAIN X.cols : \E i \in AllRows, j \in AllRows :
          IsNaN(Out[k][i]) /\ IsNum(X.cols[k][j])

\* C10: after the call the caller's table is the table that was passed.
C10_InputUntouched == Ended => data = input

\* C11: with close present the returned matrix has, for every window w,
\* the columns MA2_<w> and STD2_<w>.
C11_ReturnVolatilityColumns ==
    (pc = "done" /\ Has("close")) =>
        \A w \in Range(windows) : {<<"MA2_", w>>, <<"STD2_", w>>} \subseteq DOMAIN Out

\* C12: a zero high-low range never makes a division by zero: wherever the
\* 9-period band of an entity is defined, KDJ_K is a number before the fill.
C12_ZeroRangeGuarded ==
    AfterOpen =>
        \A i \in AllRows :
            (Complete(In("high"), i, KdjWindow) /\ Complete(In("low"), i, KdjWindow)
                /\ ~IsNaN(In("close")[i])) =>
                IsNum(X.cols[Col("KDJ_K")][i])

\* what alpha360 divides the lags of a base column by, at row i
Norm360(b, i) ==
    CASE b \in {"open", "close", "high", "low"} -> In("close")[i]
      [] b = "volume" -> In("volume")[i]
      [] b = "amount" -> Mul(In("close")[i], In("volume")[i])

\* C13: alpha360 ends without raising whichever columns are absent; it
\* returns one column per present base column and lag 1..K and none for an
\* absent one; the column's cell is the entity's value i observations
\* earlier over the normalizer, missing where there is no such observation.
C13_Alpha360Columns ==
    Ended =>
        /\ HasFrame
        /\ DOMAIN Out = {b \in BaseKeys : Has(b)} \X (1..MaxShift)
        /\ \A k \in DOMAIN Out : \A i \in AllRows :
              Out[k][i] = IF NthBefore(i, k[2]) = {} THEN NaN
                          ELSE Div(In(k[1])[CHOOSE j \in NthBefore(i, k[2]) : TRUE],
                                   Norm360(k[1], i))

\* the series of ic_ana and the scalars it returns
Pred == input.cols[Col("pred")]
Label == input.cols[Col("y")]
Ic == X.cols[Col("ic")]
RankIc == X.cols[Col("rank_ic")]
Scalar(name) == Out[Col(name)][1]
AfterRankIc == pc \in {"rank_ic", "done"}

\* the rows of the n-th timestamp, and those with prediction and label
Day(n) == {i \in AllRows : Idx[i][1] = X.index[n]}
Paired(n) == {i \in Day(n) : ~IsNaN(Pred[i]) /\ ~IsNaN(Label[i])}

\* the n-th timestamp has two different labels
TwoLabels(n) == \E i, j \in Day(n) : ~IsNaN(Label[i]) /\ ~IsNaN(Label[j]) /\ Label[i] # Label[j]

\* C14 as claimed: with the prediction identical to the label, IC(t) and
\* RankIC(t) are 1 at every timestamp with two different labels, and the
\* returned IC and RankIC are 1.
C14_PerfectPrediction ==
    (AfterRankIc /\ Pred = Label) =>
        /\ \A n \in 1..Len(X.index) : TwoLabels(n) => (Ic[n] = Num(1) /\ RankIc[n] = Num(1))
        /\ pc = "done" => (Scalar("IC") = Num(1) /\ Scalar("Rank_IC") = Num(1))

\* C14 as amended: the same per timestamp; the returned IC and RankIC are 1
\* when some timestamp has two different labels and missing when none has.
C14_PerfectPredictionWhereDefined ==
    (AfterRankIc /\ Pred = Label) =>
        /\ \A n \in 1..Len(X.index) :
              IF TwoLabels(n) THEN Ic[n] = Num(1) /\ RankIc[n] = Num(1)
              ELSE IsNaN(Ic[n]) /\ IsNaN(RankIc[n])
        /\ pc = "done" =>
              IF \E n \in 1..Len(X.index) : TwoLabels(n)
              THEN Scalar("IC") = Num(1) /\ Scalar("Rank_IC") = Num(1)
              ELSE IsNaN(Scalar("IC")) /\ IsNaN(Scalar("Rank_IC"))

\* a perfect prediction was scored on a timestamp with tied labels and a
\* timestamp whose labels are all equal
C14_Witness ==
    /\ pc = "done" /\ Pred = Label
    /\ \E n \in 1..Len(X.index) : ~TwoLabels(n)
    /\ \E n \in 1..Len(X.index) :
          /\ TwoLabels(n)
          /\ \E i, j \in Day(n) : i # j /\ Label[i] = Label[j]
    /\ Scalar("Rank_IC") = Num(1)

\* C15: a timestamp whose prediction is constant, or with fewer than two
\* entities having prediction and label, has a missing IC(t) and RankIC(t);
\* the call returns, and IC and RankIC are the means over the timestamps
\* where they are defined.
C15_UndefinedTimestampsSkipped ==
    /\ pc \notin {"raised"}
    /\ AfterRankIc =>
          \A n \in 1..Len(X.index) :
              ((\A i, j \in Paired(n) : Pred[i] = Pred[j]) \/ Cardinality(Paired(n)) < 2) =>
                  (IsNaN(Ic[n]) /\ IsNaN(RankIc[n]))
    /\ pc = "done" =>
          /\ result.kind = "tuple"
          /\ Scalar("IC") = MeanOfPresent(Ic)
          /\ Scalar("Rank_IC") = MeanOfPresent(RankIc)

\* one timestamp had a constant prediction over three entities, the other a
\* defined IC below 1, and the returned IC is that one value, not its half
C15_Witness ==
    /\ pc = "done"
    /\ \E n \in 1..Len(X.index), m \in 1..Len(X.index) :
          /\ Cardinality(Paired(n)) = 3 /\ IsNaN(Ic[n])
          /\ \E i \in Paired(n) : Label[i] # Label[CHOOSE j \in Paired(n) : TRUE]
          /\ Ic[m] = Frac(1, 2)
          /\ Scalar("IC") = Frac(1, 2)

\* the sample variance of the defined cells of s, from the sum of squares
SampleVar(s) ==
    LET V == {n \in 1..Len(s) : ~IsNaN(s[n])}
        sq == [n \in 1..Len(s) |-> Mul(s[n], s[n])]
        m == MeanOfPresent(s)
    IN  Div(Sub(SumOver(sq, V), Mul(Num(Cardinality(V)), Mul(m, m))), Num(Cardinality(V) - 1))

\* what mean / std is for the series s, as a square with the sign of the mean
InfoRatio(s) ==
    LET V == {n \in 1..Len(s) : ~IsNaN(s[n])}
        m == MeanOfPresent(s)
    IN  IF Cardinality(V) < 2 THEN NaN
        ELSE IF \A n \in V : s[n] = m
             THEN (IF m = Num(0) THEN NaN ELSE IF Less(m, Num(0)) THEN NegInf ELSE PosInf)
             ELSE Div(IF Less(m, Num(0)) THEN Neg(Mul(m, m)) ELSE Mul(m, m), SampleVar(s))

\* C16: ic_ana returns the four scalars IC, ICIR, Rank_IC and Rank_ICIR,
\* ICIR being mean(IC(t)) / std(IC(t)) and Rank_ICIR likewise; with one
\* defined timestamp, or all defined IC(t) equal, ICIR is not a number or
\* infinite, and the call does not raise.
C16_FourScalars ==
    /\ pc \notin {"raised"}
    /\ pc = "done" =>
          /\ result.kind = "tuple"
          /\ DOMAIN Out = {Col("IC"), Col("ICIR"), Col("Rank_IC"), Col("Rank_ICIR")}
          /\ \A k \in DOMAIN Out : Len(Out[k]) = 1
          /\ Scalar("ICIR") = InfoRatio(Ic)
          /\ Scalar("Rank_ICIR") = InfoRatio(RankIc)
          /\ (\A n, m \in 1..Len(Ic) : (IsNaN(Ic[n]) \/ IsNaN(Ic[m]) \/ Ic[n] = Ic[m])) =>
                ~IsNum(Scalar("ICIR"))

\* the IC series had two equal values, the ratio being minus infinity
C16_Witness ==
    /\ pc = "done"
    /\ Ic[1] = Ic[2] /\ Ic[1] = Frac(-1, 2)
    /\ Scalar("ICIR") = NegInf

\* two rows of the input have the same <<time, code>> key
HasDuplicateKey == \E i, j \in AllRows : i # j /\ Idx[i] = Idx[j]

\* C17: on a table with a duplicate key make_factors computes no factor and
\* returns no matrix: it ends by raising.
C17_DuplicateKeyRejected ==
    HasDuplicateKey =>
        /\ X.cols = EmptyCols
        /\ ~HasFrame
        /\ Ended => pc = "raised"

\* the factors computed from one entity's observations alone
EntityScoped ==
    {"DIF", "DEA", "RET1_", "CLOSE", "ROC", "BETA", "MA", "MAX", "MIN", "MA2_", "RSI", "KMID",
     "KUP", "KDJ_K", "KDJ_D", "KLEN", "KLOW", "VWAP", "MEAN1", "OPEN", "HIGH", "LOW", "VOLUME",
     "VMA", "VMA2_", "MEAN2_", "AMOUNT"}

Scoped(cols) == [k \in {c \in DOMAIN cols : c[1] \in EntityScoped} |-> cols[k]]

Entities == {Idx[i][2] : i \in AllRows}

\* the table d with the bars of every entity but e replaced by flat bars
OthersFlat(d, e) ==
    [index |-> d.index,
     cols |-> [k \in DOMAIN d.cols |->
                 [i \in 1..Len(d.index) |->
                    IF d.index[i][2] = e THEN d.cols[k][i] ELSE FlatBar(1)[k[1]]]]]

\* the rows of entity e in the frame d
Own(d, e) ==
    LET Mine(pair) == pair[1][2] = e
        Cut(col) == SelectSeq([i \in 1..Len(d.index) |-> <<d.index[i], col[i]>>], Mine)
    IN  [index |-> [m \in 1..Len(Cut(d.index)) |-> Cut(d.index)[m][1]],
         cols |-> [k \in DOMAIN d.cols |->
                     [m \in 1..Len(Cut(d.index)) |-> Cut(d.cols[k])[m][2]]]]

\* the number of rows of row i's entity up to row i
OwnRank(i) == Cardinality(Before(i)) + 1

\* C18 as claimed: the returned value of an entity-scoped factor at an
\* observation of entity E is unchanged by a change of the observations of
\* the other entities.
C18_EntitiesIndependent ==
    pc = "done" =>
        \A e \in Entities :
            LET alt == MakeFactors(OthersFlat(input, e), windows)
            IN  \A i \in AllRows : Idx[i][2] = e =>
                    \A k \in DOMAIN Scoped(Out) : Out[k][i] = alt.cols[k][i]

\* C18 as amended: before the final fill the entity-scoped factors at the
\* observations of E are what the table of E's rows alone gives, whatever
\* the other entities hold and wherever their rows stand; so is the returned
\* value unless the cell is filled with the mean of its column.
C18_IndependentBeforeMeanFill ==
    pc = "done" =>
        \A e \in Entities :
            LET ownX == Own(X, e)
                ownOut == Fill(ownX).cols
            IN  /\ Scoped(ownX.cols) = Scoped(Factors(Own(input, e), windows).cols)
                /\ \A i \in AllRows : Idx[i][2] = e =>
                      \A k \in DOMAIN Scoped(Out) :
                          MeanFilled(k, i) \/ Out[k][i] = ownOut[k][OwnRank(i)]

\* two entities with interleaved rows: a mean-filled cell of one differs from
\* what its own rows give, and a forward-filled cell of it does not
C18_Witness ==
    /\ pc = "done"
    /\ \E i \in AllRows \ {1} : Idx[i][2] # Idx[i - 1][2] /\ Before(i) # {}
    /\ \E i \in AllRows, k \in DOMAIN Scoped(Out) :
          /\ MeanFilled(k, i) /\ IsNum(Out[k][i])
          /\ Out[k][i] # Fill(Own(X, Idx[i][2])).cols[k][OwnRank(i)]
    /\ \E i \in AllRows, k \in DOMAIN Scoped(Out) :
          /\ IsNaN(X.cols[k][i]) /\ ~MeanFilled(k, i)
          /\ Out[k][i] = Fill(Own(X, Idx[i][2])).cols[k][OwnRank(i)]

\* the last n price differences of row i's entity are defined
DiffsDefined(i, n) ==
    /\ Cardinality(Before(i)) >= n
    /\ \A j \in Trailing(i, n + 1) : ~IsNaN(In("close")[j])

\* the sum of the rises (dir = 1) or of the falls (dir = -1) among them
SumMoves(i, n, dir) ==
    LET move == [j \in AllRows |->
                    IF j \in Trailing(i, n)
                    THEN LET d == Sub(In("close")[j], In("close")[Prev(j)])
                         IN  IF dir = 1 THEN (IF Less(Num(0), d) THEN d ELSE Num(0))
                             ELSE (IF Less(d, Num(0)) THEN Neg(d) ELSE Num(0))
                    ELSE NaN]
    IN  SumOver(move, Trailing(i, n))

\* C19 as claimed: where the trailing n price differences hold no fall, the
\* RSI is not a number, whether or not they hold a rise.
C19_ZeroLossIsNaN ==
    AfterClose =>
        \A w \in Range(windows) : \A i \in AllRows :
            (DiffsDefined(i, w) /\ SumMoves(i, w, -1) = Num(0)) =>
                IsNaN(X.cols[<<"RSI", w>>][i])

\* C19 as amended: where the trailing n price differences hold no fall, the
\* RSI is 100 if they hold a rise (the ratio is +inf) and not a number if
\* they hold none (0/0); with a fall it is 100 - 100 / (1 + rises / falls);
\* it is missing where the n differences are not all defined.
C19_ZeroLossIs100OrNaN ==
    AfterClose =>
        \A w \in Range(windows) : \A i \in AllRows :
            X.cols[<<"RSI", w>>][i] =
                IF ~DiffsDefined(i, w) THEN NaN
                ELSE IF SumMoves(i, w, -1) = Num(0)
                     THEN (IF SumMoves(i, w, 1) = Num(0) THEN NaN ELSE Num(100))
                     ELSE Sub(Num(100),
                              Div(Num(100),
                                  Add(Num(1), Div(SumMoves(i, w, 1), SumMoves(i, w, -1)))))

\* one table has an RSI of 100 after rises only, a missing RSI after no
\* move at all, both over defined differences
C19_Witness ==
    /\ AfterClose
    /\ \E w \in Range(windows) : \E i \in AllRows, j \in AllRows :
          /\ DiffsDefined(i, w) /\ DiffsDefined(j, w)
          /\ X.cols[<<"RSI", w>>][i] = Num(100)
          /\ IsNaN(X.cols[<<"RSI", w>>][j])

----------------------------------------------------------------------------
(* The warm-up of the exponential moving averages.                         *)

Prices == data.cols[Col("prices")]

\* the number of row i among the rows of its entity, and how many of the
\* entity's prices up to row i are present
Point(i) == Cardinality(GroupUpTo(Idx, i))
Seen(i) == Cardinality(Valid(Prices, GroupUpTo(Idx, i)))

\* the entities whose series has no missing price
GapFree(i) == \A j \in 1..Len(Idx) : CodeAt(Idx, j) = CodeAt(Idx, i) => ~IsNaN(Prices[j])

\* the larger span of cal_dif
SlowSpan == IF windows[1] < windows[2] THEN windows[2] ELSE windows[1]

AfterDif == pc \in {"cal_dea", "ema_done", "done"}
AfterDea == pc \in {"ema_done", "done"}

\* C20 as stated: the average of span s is missing at the first s - 1 points
\* of an entity's series and a number from the s-th point on, so DIF is
\* missing at the entity's first SlowSpan - 1 points and DEA at its first
\* k - 1 points.
C20_WarmupSpanMinusOne ==
    /\ AfterDif =>
          \A i \in AllRows :
              GapFree(i) => (IsNaN(X.cols[Col("DIF")][i]) <=> Point(i) < SlowSpan)
    /\ AfterDea =>
          \A i \in AllRows :
              GapFree(i) => (IsNaN(X.cols[Col("DEA")][i]) <=> Point(i) < windows[3])

\* C20: the average of span s is computed with min_periods = s - 1: it is
\* missing at a row exactly when fewer than s - 1 prices of the entity are
\* present up to that row; on a series without missing prices the first
\* s - 2 points are missing and the (s - 1)-th point is the first number.
\* DIF takes the warm-up of the larger of its two spans.
C20_WarmupSpanMinusTwo ==
    /\ AfterDif =>
          \A i \in AllRows :
              /\ IsNaN(X.cols[Col("DIF")][i]) <=> Seen(i) < SlowSpan - 1
              /\ GapFree(i) => (IsNaN(X.cols[Col("DIF")][i]) <=> Point(i) <= SlowSpan - 2)
    /\ AfterDea =>
          \A i \in AllRows :
              /\ IsNaN(X.cols[Col("DEA")][i]) <=>
                    Seen(i) < (IF windows[3] < 2 THEN 1 ELSE windows[3] - 1)
              /\ GapFree(i) => (IsNaN(X.cols[Col("DEA")][i]) <=> Point(i) <= windows[3] - 2)

\* a series without gaps whose DIF is missing at point SlowSpan - 2 and a
\* number at point SlowSpan - 1, with the slow span at its largest
C20_Witness ==
    /\ pc = "done"
    /\ SlowSpan = MaxSpan
    /\ \E i, j \in AllRows :
          /\ CodeAt(Idx, i) = CodeAt(Idx, j) /\ GapFree(i)
          /\ Point(i) = SlowSpan - 2 /\ Point(j) = SlowSpan - 1
          /\ IsNaN(result.frame.cols[Col("DIF")][i])
          /\ IsNum(result.frame.cols[Col("DIF")][j])
          /\ IsNum(result.frame.cols[Col("DEA")][j])

----------------------------------------------------------------------------
(* The defaults of split_data_by_date.                                     *)

Given(key) == key \in DOMAIN kwargs.split_kwargs
SplitKw(key) == kwargs.split_kwargs[key]

\* the rows of the table dated from lo to hi that are in rows, in order
Dated(rows, lo, hi) ==
    LET Keep(key) == key \in Range(rows) /\ lo <= key[1] /\ key[1] <= hi
    IN  SelectSeq(Idx, Keep)

\* the rows dated from test_start_date, through test_end_date when given
TestRows ==
    Dated(Idx, kwargs.kwargs["test_start_date"],
          IF "test_end_date" \in DOMAIN kwargs.kwargs
          THEN kwargs.kwargs["test_end_date"] ELSE MaxDate + 1)

\* the rows left for training and validation
RestRows == LET Keep(key) == key \notin Range(TestRows) IN SelectSeq(Idx, Keep)

Part(name) == result.frame.cols[Col(name)]

\* C21: split_data_by_date with "split_by_date" returns (train, valid, test)
\* without raising whichever of train_start_date and valid_start_date are
\* given; train starts at train_start_date or, by default, at the first
\* date of the data left after the test set; valid starts at
\* valid_start_date or, by default, on the day after train_end_date; test is
\* exactly the rows dated from test_start_date (through test_end_date) and
\* shares no row with train or valid.
C21_DefaultsIndependent ==
    pc = "done" =>
        /\ result.kind = "tuple"
        /\ Part("test") = TestRows
        /\ Range(Part("test")) \cap (Range(Part("train")) \cup Range(Part("valid"))) = {}
        /\ Part("train") =
              Dated(RestRows,
                    IF Given("train_start_date") THEN SplitKw("train_start_date")
                    ELSE RestRows[1][1],
                    SplitKw("train_end_date"))
        /\ Part("valid") =
              Dated(RestRows,
                    IF Given("valid_start_date") THEN SplitKw("valid_start_date")
                    ELSE SplitKw("train_end_date") + 1,
                    SplitKw("valid_end_date"))

====
